---- MODULE Spec2Model ----
(***************************************************************************)
(* A model of xcalc/interpreter.py: the interpreter Eval that turns a UFL   *)
(* expression over dolfin Functions into a Function by manipulating the    *)
(* coefficient arrays.                                                     *)
(*                                                                         *)
(* Functions are objects of a heap (a sequence; the position is the        *)
(* object's identity).  Coefficients are integers, so only the kernels of  *)
(* the two rule tables that are exact on integers are modelled             *)
(* (Sum, Product, Abs; Transposed, Trace, Dot, Inner, Outer).              *)
(* Python sequences are 0-based, the sequences here are 1-based.           *)
(***************************************************************************)
EXTENDS Integers, Sequences, FiniteSets, TLC

\* Largest number of operator nodes of an evaluated expression.
MaxOps == 2
\* Number of coefficient patterns the stored functions are interpolated from.
MaxSeed == 2

RECURSIVE Prod(_)
Prod(s) == IF s = <<>> THEN 1 ELSE Head(s) * Prod(Tail(s))

Min2(a, b) == IF a <= b THEN a ELSE b

RECURSIVE MinOf(_)
MinOf(s) == IF Len(s) = 1 THEN s[1] ELSE Min2(s[1], MinOf(Tail(s)))

Last(s) == s[Len(s)]

Front(s) == SubSeq(s, 1, Len(s) - 1)

AbsInt(x) == IF x < 0 THEN -x ELSE x

(***************************************************************************)
(* dolfin / ufl objects as the interpreter sees them.                      *)
(***************************************************************************)

\* A mesh: its id(), the geometric dimension of its cells, and the number
\* of its cells and vertices (the scalar dof counts of DG0 and CG1).
mesh1 == [id |-> 1, gdim |-> 2, ncells |-> 2, nverts |-> 3]
mesh2 == [id |-> 2, gdim |-> 2, ncells |-> 2, nverts |-> 3]

\* A ufl element: family, the geometric dimension of its cell, value shape
\* (<<>> scalar, <<n>> vector, <<n, m>> tensor).  Two elements are == iff
\* these agree; the mesh is no part of an element.
Element(fam, gdim, shape) == [family |-> fam, gdim |-> gdim, shape |-> shape]

\* ufl's VectorElement(family, cell=None, degree=None, dim=None): with an
\* element as family the cell is taken from it and, dim not being given,
\* the dimension is the cell's geometric dimension.  The second positional
\* argument is the cell and is ignored.
VectorElement(V, cell) == Element(V.family, V.gdim, <<V.gdim>>)

\* ufl's TensorElement(family, cell=None, degree=None, shape=None): as for
\* VectorElement, the shape defaults to (gdim, gdim).
TensorElement(V, cell) == Element(V.family, V.gdim, <<V.gdim, V.gdim>>)

FunctionSpace(mesh, elm) == [elm |-> elm, mesh |-> mesh]

\* What stands for None where a space is expected.
NoSpace == [elm |-> Element("none", 0, <<>>), mesh |-> [id |-> 0, gdim |-> 0, ncells |-> 0, nverts |-> 0]]

\* V.num_sub_spaces(): one sub-space per component, none for a scalar space.
num_sub_spaces(V) == IF V.elm.shape = <<>> THEN 0 ELSE Prod(V.elm.shape)

\* The sub-elements of a vector or tensor element are all this one.
sub_element(elm) == Element(elm.family, elm.gdim, <<>>)

\* Number of dofs of the scalar sub-space of V.
ScalarDofs(V) == IF V.elm.family = "DG" THEN V.mesh.ncells ELSE V.mesh.nverts

\* V.dim(): the length of the coefficient array of a Function of V.
SpaceDim(V) == ScalarDofs(V) * (IF num_sub_spaces(V) = 0 THEN 1 ELSE num_sub_spaces(V))

\* V.dofmap().dofs() of a scalar space.
Dofs(V) == [d \in 1..ScalarDofs(V) |-> d]

\* V.sub(comp).dofmap().dofs(): the indices of component comp, increasing;
\* the components of one dof are stored next to each other.
SubDofs(V, comp) == [d \in 1..ScalarDofs(V) |-> (d - 1) * num_sub_spaces(V) + comp]

Zeros(n) == [i \in 1..n |-> 0]

\* A Function object: its space and its coefficient vector.
NewFunction(V) == [space |-> V, coefs |-> Zeros(SpaceDim(V))]

\* f.ufl_shape
ufl_shape(f) == f.space.elm.shape

\* Evaluated values: a Function (by identity) or a Python number.
FunVal(fid) == [tag |-> "fun", fid |-> fid, num |-> 0]
NumVal(n) == [tag |-> "num", fid |-> 0, num |-> n]
NoVal == [tag |-> "none", fid |-> 0, num |-> 0]

(***************************************************************************)
(* numpy: arrays, broadcasting and the kernels of the two rule tables.     *)
(***************************************************************************)

\* What coefs_of hands to a same-space kernel: a 1-d array, or a number.
Array(data) == [arr |-> TRUE, data |-> data]
Scalar(x) == [arr |-> FALSE, data |-> <<x>>]

\* Entry i of an operand broadcast to a longer length: a number and an
\* array of length 1 are repeated.
At(c, i) == IF Len(c.data) = 1 THEN c.data[1] ELSE c.data[i]

\* Two operands can be broadcast together.
Broadcastable(a, b) == Len(a.data) = Len(b.data) \/ Len(a.data) = 1 \/ Len(b.data) = 1

BinaryUfunc(op, x, y) == IF op = "Sum" THEN x + y ELSE x * y

\* Expression which when evaluated end up in the same space as the
\* arguments: Sum -> np.add, Abs -> np.abs, Product -> np.multiply.
\* op(*coefs): ok is FALSE where numpy raises ("operands could not be
\* broadcast together").
SAME_SPACE_RULES(op, coefs) ==
    IF op = "Abs"
    THEN [ok |-> TRUE, arr |-> coefs[1].arr,
          data |-> [i \in 1..Len(coefs[1].data) |-> AbsInt(coefs[1].data[i])]]
    ELSE LET a == coefs[1]
             b == coefs[2]
             n == IF Len(a.data) >= Len(b.data) THEN Len(a.data) ELSE Len(b.data)
         IN IF ~Broadcastable(a, b)
            THEN [ok |-> FALSE, arr |-> TRUE, data |-> <<>>]
            ELSE [ok |-> TRUE, arr |-> a.arr \/ b.arr,
                  data |-> [i \in 1..n |-> BinaryUfunc(op, At(a, i), At(b, i))]]

SameSpaceOps == {"Sum", "Abs", "Product"}

DifferentSpaceOps == {"Transposed", "Trace", "Dot", "Inner", "Outer"}

\* A logical value of one dof: a number (shape <<>>) or an array with its
\* entries in row-major order.
Tensor(shape, data) == [shape |-> shape, data |-> data]

KernelError == [ok |-> FALSE, shape |-> <<>>, data |-> <<>>]

KernelValue(shape, data) == [ok |-> TRUE, shape |-> shape, data |-> data]

RECURSIVE SumSeq(_)
SumSeq(s) == IF s = <<>> THEN 0 ELSE Head(s) + SumSeq(Tail(s))

\* Entry (i, j) of a 2-d array.
Entry(A, i, j) == A.data[(i - 1) * A.shape[2] + j]

\* np.transpose: the axes reversed.
np_transpose(A) ==
    IF Len(A.shape) < 2 THEN KernelValue(A.shape, A.data)
    ELSE LET n == A.shape[1]
             m == A.shape[2]
         IN KernelValue(<<m, n>>, [k \in 1..(n * m) |-> Entry(A, ((k - 1) % n) + 1, ((k - 1) \div n) + 1)])

\* np.trace: the sum of the diagonal of a 2-d array.
np_trace(A) ==
    IF Len(A.shape) < 2 THEN KernelError
    ELSE KernelValue(<<>>, <<SumSeq([i \in 1..Min2(A.shape[1], A.shape[2]) |-> Entry(A, i, i)])>>)

\* np.dot: the product with a number, else the sum over the last axis of a
\* and the first axis of b.
np_dot(a, b) ==
    LET ra == Len(a.shape)
        rb == Len(b.shape)
    IN IF ra = 0 THEN KernelValue(b.shape, [i \in 1..Len(b.data) |-> a.data[1] * b.data[i]])
       ELSE IF rb = 0 THEN KernelValue(a.shape, [i \in 1..Len(a.data) |-> a.data[i] * b.data[1]])
       ELSE IF Last(a.shape) # b.shape[1] THEN KernelError
       ELSE LET K == b.shape[1]
            IN IF ra = 1 /\ rb = 1
               THEN KernelValue(<<>>, <<SumSeq([k \in 1..K |-> a.data[k] * b.data[k]])>>)
               ELSE IF ra = 2 /\ rb = 1
               THEN KernelValue(<<a.shape[1]>>,
                        [i \in 1..a.shape[1] |-> SumSeq([k \in 1..K |-> Entry(a, i, k) * b.data[k]])])
               ELSE IF ra = 1 /\ rb = 2
               THEN KernelValue(<<b.shape[2]>>,
                        [j \in 1..b.shape[2] |-> SumSeq([k \in 1..K |-> a.data[k] * Entry(b, k, j)])])
               ELSE LET n == a.shape[1]
                        m == b.shape[2]
                    IN KernelValue(<<n, m>>,
                        [e \in 1..(n * m) |->
                            SumSeq([k \in 1..K |-> Entry(a, ((e - 1) \div m) + 1, k) * Entry(b, k, ((e - 1) % m) + 1)])])

\* np.inner: the product with a number, else the sum over the last axes of
\* a and b; of two 2-d arrays it is the 2-d array a . b^T.
np_inner(a, b) ==
    LET ra == Len(a.shape)
        rb == Len(b.shape)
    IN IF ra = 0 THEN KernelValue(b.shape, [i \in 1..Len(b.data) |-> a.data[1] * b.data[i]])
       ELSE IF rb = 0 THEN KernelValue(a.shape, [i \in 1..Len(a.data) |-> a.data[i] * b.data[1]])
       ELSE IF Last(a.shape) # Last(b.shape) THEN KernelError
       ELSE LET K == Last(a.shape)
            IN IF ra = 1 /\ rb = 1
               THEN KernelValue(<<>>, <<SumSeq([k \in 1..K |-> a.data[k] * b.data[k]])>>)
               ELSE IF ra = 2 /\ rb = 1
               THEN KernelValue(<<a.shape[1]>>,
                        [i \in 1..a.shape[1] |-> SumSeq([k \in 1..K |-> Entry(a, i, k) * b.data[k]])])
               ELSE IF ra = 1 /\ rb = 2
               THEN KernelValue(<<b.shape[1]>>,
                        [j \in 1..b.shape[1] |-> SumSeq([k \in 1..K |-> a.data[k] * Entry(b, j, k)])])
               ELSE LET n == a.shape[1]
                        m == b.shape[1]
                    IN KernelValue(<<n, m>>,
                        [e \in 1..(n * m) |->
                            SumSeq([k \in 1..K |-> Entry(a, ((e - 1) \div m) + 1, k) * Entry(b, ((e - 1) % m) + 1, k)])])

\* np.outer: both arguments flattened, the 2-d array of all products.
np_outer(a, b) ==
    LET n == Len(a.data)
        m == Len(b.data)
    IN KernelValue(<<n, m>>,
           [e \in 1..(n * m) |-> a.data[((e - 1) \div m) + 1] * b.data[((e - 1) % m) + 1]])

\* Expression which when evaluated end up in general in different space
\* than the arguments: op(*dof_args).
DIFFERENT_SPACE_RULES(op, t) ==
    IF op = "Transposed" THEN np_transpose(t[1])
    ELSE IF op = "Trace" THEN np_trace(t[1])
    ELSE IF op = "Dot" THEN np_dot(t[1], t[2])
    ELSE IF op = "Inner" THEN np_inner(t[1], t[2])
    ELSE np_outer(t[1], t[2])

(***************************************************************************)
(* Expressions (ufl) and the heap of Function objects.                     *)
(***************************************************************************)

\* An expression node: a terminal (a dolfin Function, a Python number, a
\* ufl IntValue/ScalarValue wrapper, a ufl MultiIndex) or an operator with
\* its ufl_operands.  shape is expr.ufl_shape, set when ufl builds the node.
FunctionLeaf(fid, shape) == [kind |-> "Function", op |-> "", ufl_operands |-> <<>>, fid |-> fid, num |-> 0, ufl_shape |-> shape]
IntLeaf(n) == [kind |-> "int", op |-> "", ufl_operands |-> <<>>, fid |-> 0, num |-> n, ufl_shape |-> <<>>]
IntValueLeaf(n) == [kind |-> "IntValue", op |-> "", ufl_operands |-> <<>>, fid |-> 0, num |-> n, ufl_shape |-> <<>>]
MultiIndexLeaf == [kind |-> "MultiIndex", op |-> "", ufl_operands |-> <<>>, fid |-> 0, num |-> 0, ufl_shape |-> <<>>]
Operator(op, args, shape) == [kind |-> "Operator", op |-> op, ufl_operands |-> args, fid |-> 0, num |-> 0, ufl_shape |-> shape]

\* type(expr), the key of the rule tables.
TypeOf(expr) == IF expr.kind = "Operator" THEN expr.op ELSE expr.kind

IsFunction(v) == v.tag = "fun"

\* f.vector().get_local(): a copy of the coefficients of Function fid.
get_local(h, fid) == h[fid].coefs

\* f.vector().set_local(coefs)
set_local(h, fid, coefs) == [h EXCEPT ![fid].coefs = coefs]

\* Function(V): a new object at the end of the heap, all coefficients zero.
Function(V, h) == Append(h, NewFunction(V))

\* Variant: the coefficients are written into the oldest Function.
make_function_inplace(V, coefs, h) == set_local(Function(V, h), 1, coefs)

\* Variant: the new Function keeps its zero coefficients.
make_function_unset(V, coefs, h) == Function(V, h)

\* Variant: a second Function of V is created along with the result.
make_function_extra(V, coefs, h) == Function(V, set_local(Function(V, h), Len(h) + 1, coefs))

\* A function in V with coefs: the heap with it added as the last object.
make_function(V, coefs, h) == set_local(Function(V, h), Len(h) + 1, coefs)

\* Extract coefficients of f: of a Function its array, else the number.
coefs_of(v, h) == IF IsFunction(v) THEN Array(get_local(h, v.fid)) ELSE Scalar(v.num)

\* Extract the function space for representing foos.  Numbers are skipped;
\* the first Function sets (elm, mesh) and the assert compares every later
\* one with it.  With no Function, FunctionSpace(None, None) raises.
space_of(foos, h) ==
    LET funs == SelectSeq(foos, IsFunction)
    IN IF funs = <<>> THEN [err |-> "BadArgument", space |-> NoSpace]
       ELSE LET ref == h[funs[1].fid].space
            IN IF \E i \in 2..Len(funs) :
                    ~(h[funs[i].fid].space.elm = ref.elm /\ ref.mesh.id = h[funs[i].fid].space.mesh.id)
               THEN [err |-> "InconsistentSpace", space |-> NoSpace]
               ELSE [err |-> "none", space |-> FunctionSpace(ref.mesh, ref.elm)]

\* Iterator over dofs of V in a logical way: per dof the list of the
\* indices of its components, or the dof's own index for a scalar space.
numpy_op_indices(V, shape) ==
    LET nsubs == num_sub_spaces(V)
    IN IF nsubs # 0
       THEN IF Len(shape) = 0 THEN [err |-> "AssertionError", idx |-> <<>>]
            ELSE [err |-> "none",
                  idx |-> [d \in 1..ScalarDofs(V) |-> [comp \in 1..nsubs |-> SubDofs(V, comp)[d]]]]
       ELSE IF Len(shape) # 0 THEN [err |-> "AssertionError", idx |-> <<>>]
            ELSE [err |-> "none", idx |-> [d \in 1..ScalarDofs(V) |-> <<Dofs(V)[d]>>]]

\* The scalar element of one space: its element, or the one sub-element.
sub_elm_of(space) == IF num_sub_spaces(space) = 0 THEN space.elm ELSE sub_element(space.elm)

\* V for space which are tensor products of V otherwise fail.
common_sub_element(spaces) ==
    IF \E i \in 2..Len(spaces) : sub_elm_of(spaces[i]) # sub_elm_of(spaces[i - 1])
    THEN [err |-> "InconsistentSpace", elm |-> NoSpace.elm]
    ELSE [err |-> "none", elm |-> sub_elm_of(spaces[Len(spaces)])]

\* Variant: a tensor of any rank gets a tensor space.
make_space_anyrank(V, shape, mesh) ==
    IF shape = <<>> THEN [err |-> "none", space |-> FunctionSpace(mesh, V)]
    ELSE IF Len(shape) = 1 THEN [err |-> "none", space |-> FunctionSpace(mesh, VectorElement(V, Len(shape)))]
    ELSE [err |-> "none", space |-> FunctionSpace(mesh, TensorElement(V, shape))]

\* Tensor product space of right shape.
make_space(V, shape, mesh) ==
    IF shape = <<>> THEN [err |-> "none", space |-> FunctionSpace(mesh, V)]
    ELSE IF Len(shape) = 1 THEN [err |-> "none", space |-> FunctionSpace(mesh, VectorElement(V, Len(shape)))]
    ELSE IF Len(shape) = 2 THEN [err |-> "none", space |-> FunctionSpace(mesh, TensorElement(V, shape))]
    ELSE [err |-> "UnsupportedRank", space |-> NoSpace]

\* The value fed to the kernel for one dof of an argument: the coefficients
\* at the dof's indices, reshaped to the argument's shape.
LogicalValue(f, index) ==
    IF ufl_shape(f) # <<>>
    THEN Tensor(ufl_shape(f), [j \in 1..Len(index) |-> f.coefs[index[j]]])
    ELSE Tensor(<<>>, <<f.coefs[index[1]]>>)

\* coefs_res[dof] = value: dof a list of indices (flat) or one index.
\* numpy raises when the value does not fit the indices.
Assign(coefs, dof, value, flat) ==
    IF flat
    THEN IF Len(value.data) = Len(dof) \/ Len(value.data) = 1
         THEN [ok |-> TRUE,
               coefs |-> [p \in 1..Len(coefs) |->
                   IF \E j \in 1..Len(dof) : dof[j] = p
                   THEN LET j == CHOOSE j \in 1..Len(dof) : dof[j] = p
                        IN IF Len(value.data) = 1 THEN value.data[1] ELSE value.data[j]
                   ELSE coefs[p]]]
         ELSE [ok |-> FALSE, coefs |-> coefs]
    ELSE IF Len(value.data) = 1
         THEN [ok |-> TRUE, coefs |-> [coefs EXCEPT ![dof[1]] = value.data[1]]]
         ELSE [ok |-> FALSE, coefs |-> coefs]

\* Fill coefs of the result expression: the loop over izip(dofs, args)
\* from step d on; writes lists the dofs assigned so far.
RECURSIVE fill_coefs(_, _, _, _, _, _, _)
fill_coefs(op, dofs, dof_args, flat, d, coefs_res, writes) ==
    IF d > Min2(Len(dofs), Len(dof_args))
    THEN [ok |-> TRUE, coefs |-> coefs_res, writes |-> writes]
    ELSE LET value == DIFFERENT_SPACE_RULES(op, dof_args[d])
         IN IF ~value.ok THEN [ok |-> FALSE, coefs |-> coefs_res, writes |-> writes]
            ELSE LET a == Assign(coefs_res, dofs[d], value, flat)
                 IN IF ~a.ok THEN [ok |-> FALSE, coefs |-> coefs_res, writes |-> writes]
                    ELSE fill_coefs(op, dofs, dof_args, flat, d + 1, a.coefs, Append(writes, dofs[d]))

(***************************************************************************)
(* The interpreter.  A call returns err ("none", or the exception), the    *)
(* value, the heap after it, the FunctionSpace objects it built, in order, *)
(* and of its root node the evaluated operands, the result space and the   *)
(* dofs assigned.                                                          *)
(***************************************************************************)

Top(args, vres, writes) == [args |-> args, vres |-> vres, writes |-> writes]

NoTop == Top(<<>>, NoSpace, <<>>)

Result(err, val, h, spaces, top) == [err |-> err, val |-> val, heap |-> h, spaces |-> spaces, top |-> top]

\* Variant: a Function is returned as a copy of itself.
Terminal_copy(expr, h) ==
    IF expr.kind = "Function"
    THEN Result("none", FunVal(Len(h) + 1), Append(h, h[expr.fid]), <<>>, NoTop)
    ELSE Result("none", NumVal(expr.num), h, <<>>, NoTop)

\* Terminals/base cases: a Function, an int or a float is returned as it is.
Terminal(expr, h) ==
    Result("none", IF expr.kind = "Function" THEN FunVal(expr.fid) ELSE NumVal(expr.num), h, <<>>, NoTop)

RECURSIVE Eval(_, _)
RECURSIVE EvalArgs(_, _)
RECURSIVE numpy_reshaped(_, _, _)

\* args = map(Eval, expr.ufl_operands): left to right, stopping at the
\* first operand that raises.
EvalArgs(es, h) ==
    IF es = <<>> THEN [err |-> "none", vals |-> <<>>, heap |-> h, spaces |-> <<>>]
    ELSE LET r == Eval(Head(es), h)
         IN IF r.err # "none"
            THEN [err |-> r.err, vals |-> <<>>, heap |-> r.heap, spaces |-> r.spaces]
            ELSE LET rest == EvalArgs(Tail(es), r.heap)
                 IN [err |-> rest.err, vals |-> <<r.val>> \o rest.vals,
                     heap |-> rest.heap, spaces |-> r.spaces \o rest.spaces]

\* Get the coefs by applying the numpy op to reshaped argument coefficients.
numpy_reshaped(expr, op, h) ==
    LET ea == EvalArgs(expr.ufl_operands, h)
        args == ea.vals
        h1 == ea.heap
        sos == [i \in 1..Len(args) |-> space_of(<<args[i]>>, h1)]
    IN IF ea.err # "none" THEN Result(ea.err, NoVal, h1, ea.spaces, NoTop)
       ELSE IF \E i \in 1..Len(args) : sos[i].err # "none"
       THEN LET i == CHOOSE i \in 1..Len(args) :
                        sos[i].err # "none" /\ \A j \in 1..(i - 1) : sos[j].err = "none"
            IN Result(sos[i].err, NoVal, h1,
                      ea.spaces \o [j \in 1..(i - 1) |-> sos[j].space], Top(args, NoSpace, <<>>))
       ELSE
       LET spaces1 == ea.spaces \o [i \in 1..Len(args) |-> sos[i].space]
           sub_elm == common_sub_element([i \in 1..Len(args) |-> sos[i].space])
           fs == [i \in 1..Len(args) |-> h1[args[i].fid]]
           indices == [i \in 1..Len(args) |-> numpy_op_indices(fs[i].space, ufl_shape(fs[i]))]
           V == fs[Len(args)].space
           shape_res == expr.ufl_shape
           made == make_space(sub_elm.elm, shape_res, V.mesh)
           V_res == made.space
           dofs == numpy_op_indices(V_res, shape_res)
           flat == shape_res # <<>>
           h2 == Function(V_res, h1)
           n_args == MinOf([i \in 1..Len(args) |-> Len(indices[i].idx)])
           dof_args == [d \in 1..n_args |-> [i \in 1..Len(args) |-> LogicalValue(fs[i], indices[i].idx[d])]]
           filled == fill_coefs(op, dofs.idx, dof_args, flat, 1, get_local(h2, Len(h2)), <<>>)
       IN IF sub_elm.err # "none"
          THEN Result(sub_elm.err, NoVal, h1, spaces1, Top(args, NoSpace, <<>>))
          ELSE IF \E i \in 1..Len(args) : indices[i].err # "none"
          THEN Result("AssertionError", NoVal, h1, spaces1, Top(args, NoSpace, <<>>))
          ELSE IF made.err # "none"
          THEN Result(made.err, NoVal, h1, spaces1, Top(args, NoSpace, <<>>))
          ELSE IF dofs.err # "none"
          THEN Result(dofs.err, NoVal, h1, Append(spaces1, V_res), Top(args, V_res, <<>>))
          ELSE IF ~filled.ok
          THEN Result("NumericError", NoVal, h2, Append(spaces1, V_res), Top(args, V_res, filled.writes))
          ELSE Result("none", FunVal(Len(h2) + 1), make_function(V_res, filled.coefs, h2),
                      Append(spaces1, V_res), Top(args, V_res, filled.writes))

\* This intepreter translates expr into a function object or a number.
Eval(expr, h) ==
    IF expr.kind \in {"Function", "int"} THEN Terminal(expr, h)
    ELSE IF expr.kind = "IntValue" THEN Result("none", NumVal(expr.num), h, <<>>, NoTop)
    ELSE IF TypeOf(expr) \in DifferentSpaceOps THEN numpy_reshaped(expr, TypeOf(expr), h)
    ELSE
    LET ea == EvalArgs(expr.ufl_operands, h)
        args == ea.vals
        h1 == ea.heap
        coefs == [i \in 1..Len(args) |-> coefs_of(args[i], h1)]
        V_coefs == SAME_SPACE_RULES(TypeOf(expr), coefs)
        V == space_of(args, h1)
    IN IF ea.err # "none" THEN Result(ea.err, NoVal, h1, ea.spaces, NoTop)
       ELSE IF TypeOf(expr) \notin SameSpaceOps
       THEN Result("UnsupportedOperator", NoVal, h1, ea.spaces, Top(args, NoSpace, <<>>))
       ELSE IF ~V_coefs.ok
       THEN Result("NumericError", NoVal, h1, ea.spaces, Top(args, NoSpace, <<>>))
       ELSE IF V.err # "none"
       THEN Result(V.err, NoVal, h1, ea.spaces, Top(args, NoSpace, <<>>))
       ELSE Result("none", FunVal(Len(h1) + 1), make_function(V.space, V_coefs.data, h1),
                   Append(ea.spaces, V.space), Top(args, V.space, <<>>))

(***************************************************************************)
(* The caller: stored Functions, and the expressions ufl builds over them. *)
(***************************************************************************)

DG0(mesh) == Element("DG", mesh.gdim, <<>>)
CG1(mesh) == Element("CG", mesh.gdim, <<>>)

\* The spaces of the stored Functions u, v (one scalar space), three
\* vector functions (another family, another mesh) and two tensor
\* functions, one of them of a shape that is not (gdim, gdim).
StoreSpaces ==
    << FunctionSpace(mesh1, DG0(mesh1)),
       FunctionSpace(mesh1, DG0(mesh1)),
       FunctionSpace(mesh1, Element("DG", 2, <<2>>)),
       FunctionSpace(mesh1, Element("CG", 2, <<2>>)),
       FunctionSpace(mesh2, Element("DG", 2, <<2>>)),
       FunctionSpace(mesh1, Element("DG", 2, <<2, 2>>)),
       FunctionSpace(mesh1, Element("DG", 2, <<3, 2>>)) >>

\* interpolate(f, V): the coefficients of the i-th stored Function.
interpolate(seed, i, V) ==
    [space |-> V, coefs |-> [k \in 1..SpaceDim(V) |-> ((seed * k + i) % 5) - 2]]

InitialStore(seed) == [i \in 1..Len(StoreSpaces) |-> interpolate(seed, i, StoreSpaces[i])]

Terminals ==
    {FunctionLeaf(i, StoreSpaces[i].elm.shape) : i \in 1..Len(StoreSpaces)} \cup {IntValueLeaf(2)}

IsNumber(e) == e.kind = "IntValue"

\* The nodes ufl builds: an operator applied to operands it accepts, with
\* the shape ufl derives.  ufl folds an operator on numbers alone into a
\* number, and turns Dot, Inner and Outer of scalars into a Product.
UflUnary(op, a) ==
    LET sh == a.ufl_shape
    IN IF op = "Abs" /\ ~IsNumber(a) THEN {Operator(op, <<a>>, sh)}
       ELSE IF op = "Transposed" /\ Len(sh) = 2 THEN {Operator(op, <<a>>, <<sh[2], sh[1]>>)}
       ELSE IF op = "Trace" /\ Len(sh) = 2 THEN {Operator(op, <<a>>, <<>>)}
       ELSE IF op = "Indexed" /\ Len(sh) >= 1 THEN {Operator(op, <<a, MultiIndexLeaf>>, <<>>)}
       ELSE {}

UflBinary(op, a, b) ==
    LET sa == a.ufl_shape
        sb == b.ufl_shape
    IN IF op = "Sum" /\ sa = sb /\ ~(IsNumber(a) /\ IsNumber(b)) THEN {Operator(op, <<a, b>>, sa)}
       ELSE IF op = "Product" /\ sa = <<>> /\ sb = <<>> /\ ~(IsNumber(a) /\ IsNumber(b))
       THEN {Operator(op, <<a, b>>, <<>>)}
       ELSE IF op = "Dot" /\ Len(sa) >= 1 /\ Len(sb) >= 1 /\ Last(sa) = sb[1]
       THEN {Operator(op, <<a, b>>, Front(sa) \o Tail(sb))}
       ELSE IF op = "Inner" /\ Len(sa) >= 1 /\ sa = sb THEN {Operator(op, <<a, b>>, <<>>)}
       ELSE IF op = "Outer" /\ Len(sa) >= 1 /\ Len(sb) >= 1 THEN {Operator(op, <<a, b>>, sa \o sb)}
       ELSE {}

UnaryOps == {"Abs", "Transposed", "Trace", "Indexed"}

BinaryOps == {"Sum", "Product", "Dot", "Inner", "Outer"}

\* The expressions with one operator node more than the largest of
\* levels, where levels[i + 1] holds those with exactly i operator nodes.
Grow(levels) ==
    LET n == Len(levels)
    IN UNION {UflUnary(op, a) : op \in UnaryOps, a \in levels[n]}
       \cup UNION {UNION {UflBinary(op, a, b) : op \in BinaryOps, a \in levels[i], b \in levels[n + 1 - i]} :
                      i \in 1..n}

\* <<the terminals, the expressions with 1 operator node, ..., with n>>
RECURSIVE Levels(_)
Levels(n) ==
    IF n = 0 THEN <<Terminals>>
    ELSE LET levels == Levels(n - 1) IN Append(levels, Grow(levels))

\* The operands ufl_operands may hold: expressions with fewer than MaxOps
\* operator nodes, by their number of operator nodes.
Lv == Levels(MaxOps - 1)

\* The node of operator op over a (and b), if ufl builds it and it has at
\* most MaxOps operator nodes; i and j are the levels of a and b.
UflNode(op, i, a, j, b) ==
    IF op \in UnaryOps THEN (IF j = 1 /\ b = a THEN UflUnary(op, a) ELSE {})
    ELSE IF i + j - 1 <= MaxOps THEN UflBinary(op, a, b) ELSE {}

\* The second operand's candidates (a unary operator has none).
Second(op, a, j) == IF op \in UnaryOps THEN {a} ELSE Lv[j]

(***************************************************************************)
(* The state: the Functions stored before the call, the expression handed  *)
(* to Eval, and what the call returned.                                    *)
(***************************************************************************)
VARIABLES store, pc, expr, out

vars == <<store, pc, expr, out>>

Init ==
    /\ \E seed \in 1..MaxSeed : store = InitialStore(seed)
    /\ pc = "idle"
    /\ expr = IntLeaf(0)
    /\ out = Result("none", NoVal, store, <<>>, NoTop)

\* Eval(f), Eval(3): a stored Function or a Python number.
EvalTerminal ==
    /\ pc = "idle"
    /\ \E e \in {t \in Terminals : t.kind = "Function"} \cup {IntLeaf(n) : n \in {0, 3}} :
        /\ pc' = "done"
        /\ expr' = e
        /\ out' = Eval(e, store)
        /\ UNCHANGED store

\* Eval of a ufl ScalarValue / IntValue.
EvalScalarValue ==
    /\ pc = "idle"
    /\ \E e \in {t \in Terminals : IsNumber(t)} :
        /\ pc' = "done"
        /\ expr' = e
        /\ out' = Eval(e, store)
        /\ UNCHANGED store

\* Eval of a node of SAME_SPACE_RULES.
EvalSameSpace ==
    /\ pc = "idle"
    /\ \E op \in SameSpaceOps, i \in 1..MaxOps, j \in 1..MaxOps :
        \E a \in Lv[i] : \E b \in Second(op, a, j) : \E e \in UflNode(op, i, a, j, b) :
            /\ pc' = "done"
            /\ expr' = e
            /\ out' = Eval(e, store)
            /\ UNCHANGED store

\* Eval of a node of DIFFERENT_SPACE_RULES.
EvalDifferentSpace ==
    /\ pc = "idle"
    /\ \E op \in DifferentSpaceOps, i \in 1..MaxOps, j \in 1..MaxOps :
        \E a \in Lv[i] : \E b \in Second(op, a, j) : \E e \in UflNode(op, i, a, j, b) :
            /\ pc' = "done"
            /\ expr' = e
            /\ out' = Eval(e, store)
            /\ UNCHANGED store

\* Eval of a node of neither table: an Indexed, or a MultiIndex.
EvalUnsupported ==
    /\ pc = "idle"
    /\ \E i \in 1..MaxOps : \E a \in Lv[i] : \E e \in UflUnary("Indexed", a) \cup {MultiIndexLeaf} :
            /\ pc' = "done"
            /\ expr' = e
            /\ out' = Eval(e, store)
            /\ UNCHANGED store

Next == EvalTerminal \/ EvalScalarValue \/ EvalSameSpace \/ EvalDifferentSpace \/ EvalUnsupported

Spec == Init /\ [][Next]_vars

(***************************************************************************)
(* What the properties below speak about.                                  *)
(***************************************************************************)

Done == pc = "done"

\* Every operand of the root node was evaluated without an exception.
ArgsEvaluated == expr.kind = "Operator" /\ Len(out.top.args) = Len(expr.ufl_operands)

\* The evaluated operands of the root node that are Functions.
FunArgs == {i \in 1..Len(out.top.args) : IsFunction(out.top.args[i])}

ArgFun(i) == out.heap[out.top.args[i].fid]

\* Same element and same mesh identity.
SameSpace(V, W) == V.elm = W.elm /\ V.mesh.id = W.mesh.id

\* Same scalar sub-element and same mesh identity.
SameSubSpace(V, W) == sub_elm_of(V) = sub_elm_of(W) /\ V.mesh.id = W.mesh.id

\* The Functions created by the call.
Created == (Len(store) + 1)..Len(out.heap)

RECURSIVE CountNodes(_, _)
\* The number of operator nodes of e whose type is in ops.
CountNodes(e, ops) ==
    (IF e.kind = "Operator" /\ e.op \in ops THEN 1 ELSE 0)
    + SumSeq([i \in 1..Len(e.ufl_operands) |-> CountNodes(e.ufl_operands[i], ops)])

\* The entry of the i-th evaluated operand that meets index k: a number is
\* broadcast.
ArgAt(i, k) == IF IsFunction(out.top.args[i]) THEN ArgFun(i).coefs[k] ELSE out.top.args[i].num

\* What the operator means for the entries at one index.
Pointwise(op, x) ==
    CASE op = "Sum" -> x[1] + x[2]
      [] op = "Product" -> x[1] * x[2]
      [] op = "Abs" -> (IF x[1] >= 0 THEN x[1] ELSE 0 - x[1])

\* a*u, u*a or u, for a stored Function u and a number a.
IsTerm(e) ==
    \/ e.kind = "Function"
    \/ /\ e.kind = "Operator" /\ e.op = "Product"
       /\ {e.ufl_operands[1].kind, e.ufl_operands[2].kind} = {"IntValue", "Function"}

TermFun(e) ==
    IF e.kind = "Function" THEN e.fid
    ELSE IF e.ufl_operands[1].kind = "Function" THEN e.ufl_operands[1].fid ELSE e.ufl_operands[2].fid

TermScale(e) ==
    IF e.kind = "Function" THEN 1
    ELSE IF e.ufl_operands[1].kind = "Function" THEN e.ufl_operands[2].num ELSE e.ufl_operands[1].num

\* expr is a*u + b*v with u and v stored Functions of one space.
IsLinearCombination ==
    /\ expr.kind = "Operator" /\ expr.op = "Sum"
    /\ IsTerm(expr.ufl_operands[1]) /\ IsTerm(expr.ufl_operands[2])
    /\ SameSpace(store[TermFun(expr.ufl_operands[1])].space, store[TermFun(expr.ufl_operands[2])].space)

\* C1: a same-space operator whose evaluated operands are Functions of one
\* space V and numbers yields a new Function of V (same element, same
\* mesh) whose coefficient at every index is the operator applied to the
\* operands' coefficients at that index, numbers broadcast; and
\* Eval(a*u + b*v) has the coefficients a*coefs(u) + b*coefs(v).
C1_SameSpaceKernel ==
    /\ (Done /\ TypeOf(expr) \in SameSpaceOps /\ ArgsEvaluated /\ FunArgs # {}
          /\ \A i, j \in FunArgs : SameSpace(ArgFun(i).space, ArgFun(j).space))
       => /\ out.err = "none"
          /\ IsFunction(out.val)
          /\ out.val.fid \in Created
          /\ \A i \in FunArgs : out.val.fid # out.top.args[i].fid
          /\ LET f == out.heap[out.val.fid]
                 V == ArgFun(CHOOSE i \in FunArgs : TRUE).space
             IN /\ f.space.elm = V.elm
                /\ f.space.mesh = V.mesh
                /\ Len(f.coefs) = SpaceDim(V)
                /\ \A k \in 1..SpaceDim(V) :
                      f.coefs[k] = Pointwise(expr.op, [i \in 1..Len(out.top.args) |-> ArgAt(i, k)])
    /\ (Done /\ IsLinearCombination)
       => /\ out.err = "none"
          /\ LET t1 == expr.ufl_operands[1]
                 t2 == expr.ufl_operands[2]
                 u == store[TermFun(t1)]
                 v == store[TermFun(t2)]
             IN out.heap[out.val.fid].coefs =
                   [k \in 1..Len(u.coefs) |-> TermScale(t1) * u.coefs[k] + TermScale(t2) * v.coefs[k]]

\* Eval(a*u + v) returned, u and v two stored Functions of one space.
C1_Witness ==
    /\ Done /\ IsLinearCombination /\ out.err = "none"
    /\ expr.ufl_operands[1].kind = "Operator"
    /\ TermFun(expr.ufl_operands[1]) # TermFun(expr.ufl_operands[2])
    /\ TermScale(expr.ufl_operands[1]) = 2

\* The terminal whose value is v.
LeafOf(v) == IF IsFunction(v) THEN FunctionLeaf(v.fid, ufl_shape(out.heap[v.fid])) ELSE IntLeaf(v.num)

\* C7: Eval of a terminal value (a stored Function, an int or a float)
\* returns that very value, creates no Function and no FunctionSpace, and
\* Eval of the result gives the same value again.
C7_TerminalIdentity ==
    (Done /\ expr.kind \in {"Function", "int"})
    => /\ out.err = "none"
       /\ out.val = (IF expr.kind = "Function" THEN FunVal(expr.fid) ELSE NumVal(expr.num))
       /\ out.heap = store
       /\ out.spaces = <<>>
       /\ LET again == Eval(LeafOf(out.val), out.heap)
          IN again.err = "none" /\ again.val = out.val /\ again.heap = out.heap /\ again.spaces = <<>>

\* Eval of a stored Function returned.
C7_Witness == Done /\ expr.kind = "Function" /\ out.err = "none" /\ out.val = FunVal(expr.fid)

\* C10: after Eval, whether it returned or raised, every Function that
\* existed before the call has the coefficients (and the space) it had;
\* what Eval wrote is in Functions created during the call.
C10_StoredFunctionsUntouched ==
    Done => /\ Len(out.heap) >= Len(store)
            /\ \A i \in 1..Len(store) : out.heap[i] = store[i]

\* A call that returned a Function it created from two operator nodes, and
\* a stored Function whose coefficients differ from the result's.
C10_Witness ==
    /\ Done /\ out.err = "none" /\ IsFunction(out.val) /\ out.val.fid \in Created
    /\ CountNodes(expr, SameSpaceOps \cup DifferentSpaceOps) = 2
    /\ out.heap[out.val.fid].coefs # store[1].coefs

\* Two evaluated operands of the root node are Functions whose spaces
\* differ in element or in mesh identity.
ArgsOfDifferentSpaces == \E i, j \in FunArgs : ~SameSpace(ArgFun(i).space, ArgFun(j).space)

\* C2: a same-space operator with two operand Functions whose spaces differ
\* in element or in mesh identity fails with the inconsistent-space error
\* and returns no Function.
C2_InconsistentSpaceRejected ==
    (Done /\ TypeOf(expr) \in SameSpaceOps /\ ArgsEvaluated /\ ArgsOfDifferentSpaces)
    => out.err = "InconsistentSpace" /\ out.val = NoVal

\* The root node is a different-space operator and make_space built the
\* space of its result.
ResultSpaceBuilt == Done /\ TypeOf(expr) \in DifferentSpaceOps /\ out.top.vres # NoSpace

\* C3: the space built for a result of declared shape (n,) has n
\* sub-spaces, for (n, m) it has n*m, and for a scalar result it has none.
C3_SubSpaceCount ==
    ResultSpaceBuilt
    => num_sub_spaces(out.top.vres) = (IF expr.ufl_shape = <<>> THEN 0 ELSE Prod(expr.ufl_shape))

\* Two evaluated operands of the root node are Functions on meshes of
\* different identity or with different scalar sub-elements.
ArgsOfDifferentSubSpaces == \E i, j \in FunArgs : ~SameSubSpace(ArgFun(i).space, ArgFun(j).space)

\* C4: a different-space operator whose operand Functions are on meshes of
\* different identity, or have different scalar sub-elements, fails with
\* the inconsistent-space error and produces no Function.
C4_InconsistentSubSpaceRejected ==
    (Done /\ TypeOf(expr) \in DifferentSpaceOps /\ ArgsEvaluated /\ ArgsOfDifferentSubSpaces)
    => out.err = "InconsistentSpace" /\ out.val = NoVal

\* C5: a node whose type is in neither rule table fails with the
\* unsupported-operator error and returns no Function, whatever its
\* operands.
C5_UnsupportedOperatorRejected ==
    (Done /\ expr.kind \in {"Operator", "MultiIndex"}
          /\ TypeOf(expr) \notin SameSpaceOps \cup DifferentSpaceOps)
    => out.err = "UnsupportedOperator" /\ out.val = NoVal

\* The root node is a different-space operator of declared rank 3 or more.
RankThreeOrMore == Done /\ TypeOf(expr) \in DifferentSpaceOps /\ Len(expr.ufl_shape) >= 3

\* C6, as stated: a different-space operator whose declared result shape
\* has three or more dimensions fails with the unsupported-rank error.
C6_RankRejected_AsStated == RankThreeOrMore => out.err = "UnsupportedRank"

\* C6, amended: when its operands evaluate to Functions that share one
\* scalar sub-element, a different-space operator of declared rank 3 or
\* more fails with the unsupported-rank error, before a result space or a
\* result Function is created and before a result coefficient is written.
C6_RankRejected ==
    (RankThreeOrMore /\ ArgsEvaluated
        /\ \A i, j \in FunArgs : sub_elm_of(ArgFun(i).space) = sub_elm_of(ArgFun(j).space))
    => /\ out.err = "UnsupportedRank"
       /\ out.val = NoVal
       /\ out.top.vres = NoSpace
       /\ out.top.writes = <<>>
       /\ out.heap = EvalArgs(expr.ufl_operands, store).heap
       /\ out.spaces = EvalArgs(expr.ufl_operands, store).spaces
                          \o [i \in 1..Len(out.top.args) |-> ArgFun(i).space]

\* Outer(v, A) of a vector and a tensor Function was rejected for its rank.
C6_Witness ==
    /\ RankThreeOrMore /\ ArgsEvaluated /\ out.err = "UnsupportedRank"
    /\ expr.op = "Outer" /\ Len(expr.ufl_shape) = 3

\* The logical value of Function f at dof d of its scalar sub-space: its
\* coefficients at the d-th index of each sub-space, in its tensor shape.
ValueAt(f, d) ==
    IF num_sub_spaces(f.space) = 0 THEN Tensor(<<>>, <<f.coefs[Dofs(f.space)[d]]>>)
    ELSE Tensor(ufl_shape(f), [comp \in 1..num_sub_spaces(f.space) |-> f.coefs[SubDofs(f.space, comp)[d]]])

\* C8: for a different-space operator whose operands share one scalar
\* sub-element and mesh, the result's logical value at every dof d is the
\* kernel applied to the operands' logical values at d, and every result
\* coefficient is written exactly once.
C8_KernelPerDof ==
    (Done /\ TypeOf(expr) \in DifferentSpaceOps /\ Len(expr.ufl_shape) <= 2 /\ ArgsEvaluated
          /\ FunArgs = 1..Len(out.top.args)
          /\ \A i, j \in FunArgs : SameSubSpace(ArgFun(i).space, ArgFun(j).space))
    => /\ out.err = "none"
       /\ IsFunction(out.val)
       /\ LET f == out.heap[out.val.fid]
          IN /\ \A d \in 1..ScalarDofs(f.space) :
                   LET value == DIFFERENT_SPACE_RULES(expr.op, [i \in 1..Len(out.top.args) |-> ValueAt(ArgFun(i), d)])
                   IN value.ok /\ ValueAt(f, d).data = value.data
             /\ \A p \in 1..Len(f.coefs) :
                   Cardinality({w \in (1..Len(out.top.writes)) \X (1..Len(f.coefs)) :
                                   /\ w[2] <= Len(out.top.writes[w[1]])
                                   /\ out.top.writes[w[1]][w[2]] = p}) = 1

====
